---------------------------- MODULE Spec2Model ----------------------------
(***************************************************************************)
(* libbluray disc controller (src/libbluray/disc/disc.c): the VFS layer    *)
(* that resolves files and directories over an overlay directory and a    *)
(* BD-ROM backing store (a plain directory or a UDF image).               *)
(*                                                                         *)
(* Strings are sequences of one-character strings, so that path building  *)
(* (str_printf "%s%s") is concatenation and can be told from identity.    *)
(* File contents are sequences of byte values.  Each public operation is  *)
(* one action; the calls it makes to its collaborators (mutex, file and   *)
(* directory I/O, allocator) are recorded, in order, in ret.calls.        *)
(* The model is built with ENABLE_UDF defined.                            *)
(***************************************************************************)
EXTENDS Integers, Sequences, FiniteSets, TLC

(***************************************************************************)
(* Bounds of the model.                                                    *)
(***************************************************************************)
\* Longest file of the environment, in bytes.
MaxFileLen == 4
\* Stand-in for sizeof(buf) = 16*2048 of disc_cache_bdrom_file (disc.c:448):
\* the number of bytes one file_read of the copy loop asks for.
BufSize == 2
\* Longest directory listing one source yields.
MaxDirLen == 2

(***************************************************************************)
(* Values.                                                                 *)
(***************************************************************************)
\* The null pointer, for strings and opaque references.
NULL == <<"NULL">>
\* An absent file handle / directory handle.
NoHandle == [via |-> "none", path |-> <<>>]
\* No file at a path.
NoFile == <<-1>>
\* No directory at a path.
NoDir == <<"-">>

DIR_SEP_CHAR == "/"

\* Paths of the environment.
DevDir == <<"/", "r">>
DevImg == <<"/", "i">>
OvlRoot == <<"/", "o", "/">>
RomRoot == <<"/", "r", "/">>
DirD == <<"d">>
FileF == <<"f">>
FileG == <<"g">>

\* What str_printf("%s", NULL) prints where it does not fault.
NullText == <<"(", "n", "u", "l", "l", ")">>

\* The platform's largest signed size (util/macro.h), scaled to the model's
\* files: the environment holds files of BD_MAX_SSIZE - 1, BD_MAX_SSIZE and
\* BD_MAX_SSIZE + 1 bytes.
BD_MAX_SSIZE == MaxFileLen - 1

\* Backing-store file of n bytes: bytes 1..n, so that position is visible.
Ramp(n) == [i \in 1..n |-> i]
\* An overlay file: bytes no backing-store file holds.
OvlContent == <<11, 12>>

RomContents == {NoFile} \cup {Ramp(n) : n \in 0..MaxFileLen}

VARIABLES
    p,          \* struct bd_disc: the controller
    files,      \* local filesystem: absolute path -> content
    dirs,       \* local filesystem: absolute path -> listing (names in order)
    udf,        \* the UDF image: [files, dirs], relative path -> content/listing
    ret,        \* the last completed call: arguments, result, collaborator calls
    th,         \* concurrent callers: each thread's position and locals
    ovl_mutex,  \* p->ovl_mutex: its holder, or Free
    mem,        \* p->overlay_root as a pointer, and the heap of strings
    acc,        \* the last access to p->overlay_root or its string
    committed   \* the overlay root as the last completed disc_update left it

threads == <<th, ovl_mutex, mem, acc, committed>>

\* What the concurrent callers' steps leave alone.
world == <<p, files, dirs, udf, ret>>

vars == <<p, files, dirs, udf, ret, threads>>

(***************************************************************************)
(* Collaborators.                                                          *)
(***************************************************************************)
\* One call to a collaborator: its name, its path argument, its result and,
\* for sizes and byte counts, its number.
EvN(f, a, r, n) == [f |-> f, a |-> a, r |-> r, n |-> n]
Ev(f, a, r) == EvN(f, a, r, 0)

\* str_printf("%s%s", a, b).  A null a is undefined behaviour of the "%s"
\* conversion: the build either prints "(null)" or faults.
StrPrintfCrash == <<"CRASH">>
StrPrintf2(a, b) ==
    IF a = NULL THEN {NullText \o b, StrPrintfCrash} ELSE {a \o b}

\* str_printf("%s" DIR_SEP "%s", dir, file)
JoinDirFile(dir, file) == dir \o <<DIR_SEP_CHAR>> \o file

EmptyFn == [x \in {} |-> NoFile]

FileAt(path) == IF path \in DOMAIN files THEN files[path] ELSE NoFile
DirAt(path) == IF path \in DOMAIN dirs THEN dirs[path] ELSE NoDir

\* file_open(path, "rb") / file_open_default()(path, "rb")
FileOpenRead(via, path) ==
    IF FileAt(path) # NoFile THEN [via |-> via, path |-> path] ELSE NoHandle

\* udf_file_open(udf, rel)
UdfFileOpen(rel) ==
    IF rel \in DOMAIN udf.files /\ udf.files[rel] # NoFile
    THEN [via |-> "rom", path |-> rel] ELSE NoHandle

\* dir_open(path) / dir_open_default()(path)
DirOpen(via, path) ==
    IF DirAt(path) # NoDir THEN [via |-> via, path |-> path] ELSE NoHandle

\* udf_dir_open(udf, rel)
UdfDirOpen(rel) ==
    IF rel \in DOMAIN udf.dirs /\ udf.dirs[rel] # NoDir
    THEN [via |-> "rom", path |-> rel] ELSE NoHandle

\* mount_get_mountpoint(device_path): the device is not a mounted device node,
\* and the path comes back as it was given.
mount_get_mountpoint(device_path) == device_path

(***************************************************************************)
(* disc open                                                               *)
(***************************************************************************)
_disc_init ==
    [ disc_root          |-> NULL,
      overlay_root       |-> NULL,
      dec                |-> NULL,
      fs_handle          |-> "p",
      pf_file_open_bdrom |-> "_bdrom_open_path",
      pf_dir_open_bdrom  |-> "_bdrom_open_dir",
      pf_fs_close        |-> "NULL",
      udf_volid          |-> "NULL" ]

_set_paths(q, device_path) ==
    IF device_path # NULL
    THEN LET disc_root == mount_get_mountpoint(device_path)
         IN IF disc_root = NULL
               \/ (Len(disc_root) > 0 /\ disc_root[Len(disc_root)] = DIR_SEP_CHAR)
            THEN [q EXCEPT !.disc_root = disc_root]
            ELSE [q EXCEPT !.disc_root = disc_root \o <<DIR_SEP_CHAR>>]
    ELSE q

\* Mutant: the disc root is kept when the UDF image is selected.
disc_open_keep_root(device_path, dirOk, udfOk, decOk) ==
    LET p1 == _set_paths(_disc_init, device_path)
        dp_img == device_path # NULL /\ dirOk
        p2 == IF ~dp_img /\ udfOk
              THEN [p1 EXCEPT !.fs_handle          = "udf",
                              !.pf_fs_close        = "udf_image_close",
                              !.pf_file_open_bdrom = "udf_file_open",
                              !.pf_dir_open_bdrom  = "udf_dir_open",
                              !.udf_volid          = "volid"]
              ELSE p1
    IN [p2 EXCEPT !.dec = IF decOk THEN <<"dec">> ELSE NULL]

\* dirOk: dir_open(device_path) gives a handle; udfOk: udf_image_open gives a
\* context; decOk: dec_init gives a context.
disc_open(device_path, dirOk, udfOk, decOk) ==
    LET p1 == _set_paths(_disc_init, device_path)
        dp_img == device_path # NULL /\ dirOk
        p2 == IF ~dp_img /\ udfOk
              THEN [p1 EXCEPT !.fs_handle          = "udf",
                              !.pf_fs_close        = "udf_image_close",
                              !.pf_file_open_bdrom = "udf_file_open",
                              !.pf_dir_open_bdrom  = "udf_dir_open",
                              !.udf_volid          = "volid",
                              !.disc_root          = NULL]
              ELSE p1
    IN [p2 EXCEPT !.dec = IF decOk THEN <<"dec">> ELSE NULL]

\* The collaborators disc_open calls, in order.
disc_open_calls(device_path, dirOk, udfOk, decOk) ==
    LET dp_img == device_path # NULL /\ dirOk
    IN (IF device_path # NULL
        THEN <<Ev("mount_get_mountpoint", device_path, ""),
               Ev("dir_open", device_path, IF dirOk THEN "ok" ELSE "NULL")>>
        ELSE <<>>)
       \o (IF dp_img
           THEN <<Ev("dir_close", device_path, "")>>
           ELSE <<Ev("udf_image_open", device_path, IF udfOk THEN "ok" ELSE "NULL")>>
                \o (IF udfOk THEN <<Ev("udf_volume_id", <<>>, "volid")>> ELSE <<>>))
       \o <<Ev("dec_init", <<>>, IF decOk THEN "ok" ELSE "NULL")>>

(***************************************************************************)
(* BD-ROM filesystem                                                       *)
(***************************************************************************)
\* Each open is the set of its possible outcomes [fp, calls, crash].
Out(fp, calls, crash) == [fp |-> fp, calls |-> calls, crash |-> crash]

_bdrom_open_path(rel_path) ==
    { IF abs_path = StrPrintfCrash
      THEN Out(NoHandle, <<Ev("str_printf", p.disc_root, "fault")>>, TRUE)
      ELSE LET fp == FileOpenRead("rom", abs_path)
           IN Out(fp, <<Ev("file_open", abs_path, fp.via)>>, FALSE)
      : abs_path \in StrPrintf2(p.disc_root, rel_path) }

udf_file_open(rel_path) ==
    LET fp == UdfFileOpen(rel_path)
    IN {Out(fp, <<Ev("udf_file_open", rel_path, fp.via)>>, FALSE)}

\* p->pf_file_open_bdrom(p->fs_handle, rel_path)
pf_file_open_bdrom(rel_path) ==
    LET o == IF p.pf_file_open_bdrom = "udf_file_open"
             THEN udf_file_open(rel_path)
             ELSE _bdrom_open_path(rel_path)
    IN { [x EXCEPT !.calls = <<Ev("pf_file_open_bdrom", rel_path, x.fp.via)>> \o @]
         : x \in o }

_bdrom_open_dir(dir) ==
    { IF path = StrPrintfCrash
      THEN Out(NoHandle, <<Ev("str_printf", p.disc_root, "fault")>>, TRUE)
      ELSE LET dp == DirOpen("rom", path)
           IN Out(dp, <<Ev("dir_open", path, dp.via)>>, FALSE)
      : path \in StrPrintf2(p.disc_root, dir) }

udf_dir_open(dir) ==
    LET dp == UdfDirOpen(dir)
    IN {Out(dp, <<Ev("udf_dir_open", dir, dp.via)>>, FALSE)}

\* p->pf_dir_open_bdrom(p->fs_handle, dir)
pf_dir_open_bdrom(dir) ==
    LET o == IF p.pf_dir_open_bdrom = "udf_dir_open"
             THEN udf_dir_open(dir)
             ELSE _bdrom_open_dir(dir)
    IN { [x EXCEPT !.calls = <<Ev("pf_dir_open_bdrom", dir, x.fp.via)>> \o @]
         : x \in o }

(***************************************************************************)
(* overlay filesystem                                                      *)
(***************************************************************************)
_overlay_open_path(rel_path) ==
    LET abs_path == p.overlay_root \o rel_path
        fp == IF p.overlay_root # NULL
              THEN FileOpenRead("ovl", abs_path) ELSE NoHandle
    IN Out(fp,
           <<Ev("bd_mutex_lock", <<>>, "")>>
           \o (IF p.overlay_root # NULL
               THEN <<Ev("file_open_default:rb", abs_path, fp.via)>> ELSE <<>>)
           \o <<Ev("bd_mutex_unlock", <<>>, "")>>,
           FALSE)

\* The directory is opened under p->disc_root (disc.c:115); with no disc
\* root the "%s" conversion of the null pointer is undefined.
_overlay_open_dir(dir) ==
    IF p.overlay_root # NULL
    THEN { IF abs_path = StrPrintfCrash
           THEN Out(NoHandle, <<Ev("bd_mutex_lock", <<>>, ""),
                                Ev("str_printf", p.disc_root, "fault")>>, TRUE)
           ELSE LET dp == DirOpen("ovl", abs_path)
                IN Out(dp, <<Ev("bd_mutex_lock", <<>>, ""),
                             Ev("dir_open_default", abs_path, dp.via),
                             Ev("bd_mutex_unlock", <<>>, "")>>, FALSE)
           : abs_path \in StrPrintf2(p.disc_root, dir) }
    ELSE {Out(NoHandle, <<Ev("bd_mutex_lock", <<>>, ""),
                          Ev("bd_mutex_unlock", <<>>, "")>>, FALSE)}

(***************************************************************************)
(* directory combining                                                     *)
(***************************************************************************)
\* COMB_DIR: dp->internal of a merged directory; null when its calloc failed.
\* count is Len(entry); calloc leaves pos at 0.
CombDir(null, entry) == [null |-> null, entry |-> entry, pos |-> 0]
NoComb == CombDir(TRUE, <<>>)

\* The names a directory handle yields, in order.
DirContent(dp) ==
    IF dp.via = "rom" /\ p.pf_dir_open_bdrom = "udf_dir_open"
    THEN udf.dirs[dp.path]
    ELSE DirAt(dp.path)

Has(entry, d_name) == \E i \in 1..Len(entry) : entry[i] = d_name

\* Whether _comb_dir_append reaches its realloc.
Grows(priv, d_name) == ~priv.null /\ ~Has(priv.entry, d_name)

\* Mutant: no check for duplicates.
_comb_dir_append_dups(priv, d_name, reallocOk) ==
    IF priv.null THEN priv
    ELSE IF ~reallocOk THEN priv
    ELSE [priv EXCEPT !.entry = Append(@, d_name)]

\* priv is dp->internal before the call, the result dp->internal after it.
_comb_dir_append(priv, d_name, reallocOk) ==
    IF priv.null THEN priv
    ELSE IF Has(priv.entry, d_name) THEN priv
    ELSE IF ~reallocOk THEN priv
    ELSE [priv EXCEPT !.entry = Append(@, d_name)]

\* while (!dir_read(src, &entry)) _comb_dir_append(dp, &entry), from the k-th
\* name of src on.  st = [priv, calls, nalloc]; nalloc counts the realloc
\* calls made, failing holds the numbers of those that fail.
RECURSIVE Drain(_, _, _, _, _)
Drain(st, src, via, k, failing) ==
    IF k > Len(src)
    THEN [st EXCEPT !.calls = Append(@, EvN("dir_read", <<>>, via, 1))]
    ELSE LET d_name == src[k]
             grows == Grows(st.priv, d_name)
             ok == (st.nalloc + 1) \notin failing
         IN Drain([priv |-> _comb_dir_append(st.priv, d_name, ok),
                   calls |-> st.calls \o <<EvN("dir_read", <<d_name>>, via, 0)>>
                             \o (IF grows
                                 THEN <<Ev("realloc", <<>>, IF ok THEN "ok" ELSE "NULL")>>
                                 ELSE <<>>),
                   nalloc |-> st.nalloc + (IF grows THEN 1 ELSE 0)],
                  src, via, k + 1, failing)

\* Mutant: the backing-store directory is left open.
_combine_dirs_leak(ovl, rom, plan) ==
    IF plan.dpOk
    THEN LET st0 == [priv |-> CombDir(~plan.internalOk, <<>>),
                     calls |-> <<Ev("calloc", <<>>, "ok"),
                                 Ev("calloc", <<>>,
                                    IF plan.internalOk THEN "ok" ELSE "NULL")>>,
                     nalloc |-> 0]
             st1 == Drain(st0, DirContent(ovl), "ovl", 1, plan.failing)
             st2 == Drain(st1, DirContent(rom), "rom", 1, plan.failing)
         IN [fp |-> [via |-> "comb", path |-> <<>>], comb |-> st2.priv,
             calls |-> st2.calls \o <<Ev("dir_close", ovl.path, "ovl")>>]
    ELSE [fp |-> NoHandle, comb |-> NoComb,
          calls |-> <<Ev("calloc", <<>>, "NULL"),
                      Ev("dir_close", ovl.path, "ovl")>>]

\* plan fixes the allocator: dpOk for the handle's calloc, internalOk for the
\* calloc of COMB_DIR, failing for the realloc calls.
_combine_dirs(ovl, rom, plan) ==
    IF plan.dpOk
    THEN LET st0 == [priv |-> CombDir(~plan.internalOk, <<>>),
                     calls |-> <<Ev("calloc", <<>>, "ok"),
                                 Ev("calloc", <<>>,
                                    IF plan.internalOk THEN "ok" ELSE "NULL")>>,
                     nalloc |-> 0]
             st1 == Drain(st0, DirContent(ovl), "ovl", 1, plan.failing)
             st2 == Drain(st1, DirContent(rom), "rom", 1, plan.failing)
         IN [fp |-> [via |-> "comb", path |-> <<>>], comb |-> st2.priv,
             calls |-> st2.calls \o <<Ev("dir_close", ovl.path, "ovl"),
                                      Ev("dir_close", rom.path, "rom")>>]
    ELSE [fp |-> NoHandle, comb |-> NoComb,
          calls |-> <<Ev("calloc", <<>>, "NULL"),
                      Ev("dir_close", ovl.path, "ovl"),
                      Ev("dir_close", rom.path, "rom")>>]

\* One realloc fails, or every realloc from some call on, or none.
AllocPlans ==
    [dpOk : BOOLEAN, internalOk : BOOLEAN,
     failing : {{}} \cup {{k} : k \in 1..(2 * MaxDirLen)}
               \cup {k..(2 * MaxDirLen) : k \in 1..(2 * MaxDirLen)}]

NoAllocFailure == [dpOk |-> TRUE, internalOk |-> TRUE, failing |-> {}]

(***************************************************************************)
(* VFS                                                                     *)
(***************************************************************************)
\* Mutant: the backing store is asked first, the overlay second.
disc_open_path_rom_first(rel_path) ==
    LET ov == _overlay_open_path(rel_path)
    IN UNION { IF x.crash \/ x.fp # NoHandle
               THEN {x}
               ELSE {[ov EXCEPT !.calls = x.calls \o @]}
               : x \in pf_file_open_bdrom(rel_path) }

disc_open_path(rel_path) ==
    LET ov == _overlay_open_path(rel_path)
    IN IF ov.fp # NoHandle
       THEN {ov}
       ELSE { [x EXCEPT !.calls = ov.calls \o @] : x \in pf_file_open_bdrom(rel_path) }

disc_open_file(dir, file) == disc_open_path(JoinDirFile(dir, file))

\* An absent buffer.
NoData == NoFile

Ret(op, arg, o) ==
    [op |-> op, arg |-> arg, arg2 |-> <<>>, fp |-> o.fp, calls |-> o.calls,
     crash |-> o.crash, n |-> 0, data |-> NoData, comb |-> NoComb]

NoRet == Ret("none", <<>>, Out(NoHandle, <<>>, FALSE))

\* The process has not faulted and the controller has not been closed.
Running == ~ret.crash /\ ret.op # "disc_close"

RelPaths == {JoinDirFile(DirD, FileF), JoinDirFile(DirD, FileG)}

DiscOpenPath ==
    /\ Running
    /\ \E rel_path \in RelPaths :
          \E o \in disc_open_path(rel_path) :
             ret' = Ret("disc_open_path", rel_path, o)
    /\ UNCHANGED <<p, files, dirs, udf, threads>>

\* The outcomes [fp, comb, calls, crash] of disc_open_dir(p, dir).
disc_open_dir(dir) ==
    UNION { IF rom.crash
            THEN {[fp |-> NoHandle, comb |-> NoComb, calls |-> rom.calls, crash |-> TRUE]}
            ELSE UNION {
                 IF ovl.crash
                 THEN {[fp |-> NoHandle, comb |-> NoComb,
                        calls |-> rom.calls \o ovl.calls, crash |-> TRUE]}
                 ELSE IF ovl.fp = NoHandle
                 THEN {[fp |-> rom.fp, comb |-> NoComb,
                        calls |-> rom.calls \o ovl.calls, crash |-> FALSE]}
                 ELSE IF rom.fp = NoHandle
                 THEN {[fp |-> ovl.fp, comb |-> NoComb,
                        calls |-> rom.calls \o ovl.calls, crash |-> FALSE]}
                 ELSE { [fp |-> c.fp, comb |-> c.comb,
                         calls |-> rom.calls \o ovl.calls \o c.calls, crash |-> FALSE]
                        : c \in {_combine_dirs(ovl.fp, rom.fp, plan) : plan \in AllocPlans} }
                 : ovl \in _overlay_open_dir(dir) }
            : rom \in pf_dir_open_bdrom(dir) }

DiscOpenDir ==
    /\ Running
    /\ \E r \in disc_open_dir(DirD) :
          ret' = [Ret("disc_open_dir", DirD, Out(r.fp, r.calls, r.crash))
                  EXCEPT !.comb = r.comb]
    /\ UNCHANGED <<p, files, dirs, udf, threads>>

\* The bytes behind an open handle.
Content(fp) ==
    IF fp.via = "rom" /\ p.pf_file_open_bdrom = "udf_file_open"
    THEN udf.files[fp.path]
    ELSE FileAt(fp.path)

Min(a, b) == IF a < b THEN a ELSE b

\* if (size > 0 && size < BD_MAX_SSIZE)
SizeOk(size) == size > 0 /\ size < BD_MAX_SSIZE

\* Mutant: a short read is taken for a full one.
ReadOpened_short(o, size, allocOk, got) ==
    LET content == Content(o.fp)
        sized == o.calls \o <<EvN("file_size", o.fp.path, o.fp.via, size)>>
        closed == <<Ev("file_close", o.fp.path, o.fp.via)>>
    IN IF SizeOk(size)
       THEN IF allocOk
            THEN [n |-> size, data |-> SubSeq(content, 1, got),
                  calls |-> sized \o <<EvN("malloc", <<>>, "ok", size),
                                       EvN("file_read", o.fp.path, o.fp.via, got)>>
                            \o closed]
            ELSE [n |-> 0, data |-> NoData,
                  calls |-> sized \o <<EvN("malloc", <<>>, "NULL", size)>> \o closed]
       ELSE [n |-> 0, data |-> NoData, calls |-> sized \o closed]

\* disc_read_file after a successful open.  size is what file_size reports,
\* allocOk whether malloc gives a buffer, got what file_read returns.
ReadOpened(o, size, allocOk, got) ==
    LET content == Content(o.fp)
        sized == o.calls \o <<EvN("file_size", o.fp.path, o.fp.via, size)>>
        closed == <<Ev("file_close", o.fp.path, o.fp.via)>>
    IN IF SizeOk(size)
       THEN IF allocOk
            THEN IF got # size
                 THEN [n |-> 0, data |-> NoData,
                       calls |-> sized \o <<EvN("malloc", <<>>, "ok", size),
                                            EvN("file_read", o.fp.path, o.fp.via, got),
                                            Ev("free", <<>>, "data")>> \o closed]
                 ELSE [n |-> size, data |-> SubSeq(content, 1, got),
                       calls |-> sized \o <<EvN("malloc", <<>>, "ok", size),
                                            EvN("file_read", o.fp.path, o.fp.via, got)>>
                                 \o closed]
            ELSE [n |-> 0, data |-> NoData,
                  calls |-> sized \o <<EvN("malloc", <<>>, "NULL", size)>> \o closed]
       ELSE [n |-> 0, data |-> NoData, calls |-> sized \o closed]

\* What file_read(fp, buf, size) may return: the whole file, fewer bytes, or
\* an error.
ReadCounts(content, size) ==
    {-1} \cup {k \in 0..Len(content) : k <= size}

\* The outcomes [n, data, calls, crash] of disc_read_file(disc, dir, file, &data).
disc_read_file(dir, file) ==
    UNION { IF o.crash
            THEN {[n |-> 0, data |-> NoData, calls |-> o.calls, crash |-> TRUE]}
            ELSE IF o.fp = NoHandle
            THEN {[n |-> 0, data |-> NoData, calls |-> o.calls, crash |-> FALSE]}
            ELSE { [n |-> r.n, data |-> r.data, calls |-> r.calls, crash |-> FALSE]
                   : r \in { ReadOpened(o, size, allocOk, got)
                             : size \in {Len(Content(o.fp)), -1},
                               allocOk \in BOOLEAN,
                               got \in ReadCounts(Content(o.fp), Len(Content(o.fp))) } }
            : o \in disc_open_file(dir, file) }

DiscReadFile ==
    /\ Running
    /\ \E file \in {FileF, FileG} :
          \E r \in disc_read_file(DirD, file) :
             ret' = [Ret("disc_read_file", JoinDirFile(DirD, file),
                         Out(NoHandle, r.calls, r.crash))
                     EXCEPT !.n = r.n, !.data = r.data]
    /\ UNCHANGED <<p, files, dirs, udf, threads>>

(***************************************************************************)
(* filesystem update                                                       *)
(***************************************************************************)
OverlayRoots == {NULL, OvlRoot, RomRoot}

\* Mutant: the new root is stored as the disc root too.
disc_update_root(overlay_root) ==
    [p EXCEPT !.overlay_root = IF overlay_root # NULL THEN overlay_root ELSE NULL,
              !.disc_root = IF overlay_root # NULL THEN overlay_root ELSE @]

disc_update(overlay_root) ==
    \* X_FREE(p->overlay_root); if (overlay_root) p->overlay_root = str_dup(...)
    [p EXCEPT !.overlay_root = IF overlay_root # NULL THEN overlay_root ELSE NULL]

DiscUpdate ==
    /\ Running
    /\ \E overlay_root \in OverlayRoots :
          /\ p' = disc_update(overlay_root)
          /\ ret' = Ret("disc_update", overlay_root,
                        Out(NoHandle,
                            <<Ev("bd_mutex_lock", <<>>, ""),
                              Ev("bd_mutex_unlock", <<>>, "")>>, FALSE))
    /\ UNCHANGED <<files, dirs, udf, threads>>

\* Mutant: the partly written destination is left behind.
WriteFailExit_keep(dst, calls, cache_path) ==
    [n |-> -1, dst |-> dst,
     calls |-> calls \o <<Ev("file_close", cache_path, "out"),
                          Ev("file_close", <<>>, "in")>>]

\* if (fp_out->write(fp_out, buf, got) != got): close both handles, delete the
\* destination, fail.  dst is what the destination holds by then.
WriteFailExit(dst, calls, cache_path) ==
    [n |-> -1, dst |-> NoFile,
     calls |-> calls \o <<Ev("file_close", cache_path, "out"),
                          Ev("file_close", <<>>, "in"),
                          Ev("file_unlink", cache_path, "")>>]

\* Mutant: the source handle is left open at the end of the copy.
ReadEndExit_leak(dst, calls, cache_path) ==
    [n |-> 0, dst |-> dst,
     calls |-> calls \o <<Ev("file_close", cache_path, "out")>>]

\* got <= 0: leave the loop, close both handles, succeed.
ReadEndExit(dst, calls, cache_path) ==
    [n |-> 0, dst |-> dst,
     calls |-> calls \o <<Ev("file_close", cache_path, "out"),
                          Ev("file_close", <<>>, "in")>>]

\* The copy loop of disc_cache_bdrom_file from its iter-th round on: src is the
\* source, pos the bytes read so far, dst the destination's content.  plan
\* fixes the environment: each read returns at most plan.grain bytes, the
\* read of round plan.readErrAt returns -1, the write of round
\* plan.writeFailAt writes fewer bytes than it was given (plan.wrote, or -1).
\* Round 0 does not exist: 0 stands for "no such fault".
RECURSIVE CopyLoop(_, _, _, _, _, _, _)
CopyLoop(src, pos, dst, calls, iter, plan, cache_path) ==
    LET got == IF iter = plan.readErrAt THEN -1
               ELSE Min(plan.grain, Len(src) - pos)
        rd == EvN("file_read", <<>>, "in", got)
    IN IF got <= 0
       THEN ReadEndExit(dst, calls \o <<rd>>, cache_path)
       ELSE LET chunk == SubSeq(src, pos + 1, pos + got)
                w == IF iter = plan.writeFailAt THEN Min(plan.wrote, got - 1) ELSE got
                wr == EvN("write", cache_path, "out", w)
                written == dst \o SubSeq(chunk, 1, w)
            IN IF w # got
               THEN WriteFailExit(written, calls \o <<rd, wr>>, cache_path)
               ELSE CopyLoop(src, pos + got, written, calls \o <<rd, wr>>,
                             iter + 1, plan, cache_path)

\* The first fault ends the loop, so a plan holds at most one.
CopyPlans ==
    [grain : 1..BufSize, readErrAt : 0..(MaxFileLen + 1),
     writeFailAt : {0}, wrote : {-1}]
    \cup
    [grain : 1..BufSize, readErrAt : {0},
     writeFailAt : 1..MaxFileLen, wrote : -1..(BufSize - 1)]

\* disc_cache_bdrom_file once the input open has returned one of `opens`: the
\* outcomes [n, dst, calls, crash]; dst is the destination file afterwards.
\* The destination open (for writing) may fail.
CacheFrom(opens, cache_path) ==
    UNION { IF o.crash
            THEN {[n |-> -1, dst |-> FileAt(cache_path), calls |-> o.calls, crash |-> TRUE]}
            ELSE IF o.fp = NoHandle
            THEN {[n |-> -1, dst |-> FileAt(cache_path), calls |-> o.calls, crash |-> FALSE]}
            ELSE LET mk == o.calls \o <<Ev("file_mkdirs", cache_path, "")>>
                 IN {[n |-> -1, dst |-> FileAt(cache_path), crash |-> FALSE,
                      calls |-> mk \o <<Ev("file_open_default:wb", cache_path, "none"),
                                        Ev("file_close", <<>>, "in")>>]}
                    \cup
                    { [n |-> r.n, dst |-> r.dst, calls |-> r.calls, crash |-> FALSE]
                      : r \in { CopyLoop(Content(o.fp), 0, <<>>,
                                         mk \o <<Ev("file_open_default:wb", cache_path, "out")>>,
                                         1, plan, cache_path)
                                : plan \in CopyPlans } }
            : o \in opens }

\* Mutant: the input is resolved like any other path, overlay first.
disc_cache_bdrom_file_overlay(rel_path, cache_path) ==
    CacheFrom(disc_open_path(rel_path), cache_path)

\* fp_in = p->pf_file_open_bdrom(p->fs_handle, rel_path); ...
disc_cache_bdrom_file(rel_path, cache_path) ==
    CacheFrom(pf_file_open_bdrom(rel_path), cache_path)

CachePaths == {OvlRoot \o JoinDirFile(DirD, FileF), OvlRoot \o JoinDirFile(DirD, FileG)}

WriteFile(path, content) ==
    [x \in (DOMAIN files \cup {path}) |-> IF x = path THEN content ELSE files[x]]

DiscCacheBdromFile ==
    /\ Running
    /\ \E rel_path \in RelPaths, cache_path \in CachePaths :
          \E r \in disc_cache_bdrom_file(rel_path, cache_path) :
             /\ ret' = [Ret("disc_cache_bdrom_file", rel_path,
                            Out(NoHandle, r.calls, r.crash))
                        EXCEPT !.n = r.n, !.arg2 = cache_path]
             /\ files' = WriteFile(cache_path, r.dst)
    /\ UNCHANGED <<p, dirs, udf, threads>>

(***************************************************************************)
(* BD-ROM directory, files by directory and name                           *)
(***************************************************************************)
\* disc_open_bdrom_dir(p, rel_path)
DiscOpenBdromDir ==
    /\ Running
    /\ \E o \in pf_dir_open_bdrom(DirD) :
          ret' = Ret("disc_open_bdrom_dir", DirD, o)
    /\ UNCHANGED <<p, files, dirs, udf, threads>>

DiscOpenFile ==
    /\ Running
    /\ \E file \in {FileF, FileG} :
          \E o \in disc_open_file(DirD, file) :
             ret' = Ret("disc_open_file", JoinDirFile(DirD, file), o)
    /\ UNCHANGED <<p, files, dirs, udf, threads>>

(***************************************************************************)
(* streams                                                                 *)
(***************************************************************************)
\* "BDMV" DIR_SEP "STREAM"
StreamDir == <<"B", "D", "M", "V", DIR_SEP_CHAR, "S", "T", "R", "E", "A", "M">>

\* Stream files: the first is on the disc, the second is not.
StreamFiles == {<<"1">>, <<"2">>}
StreamOnDisc == JoinDirFile(StreamDir, <<"1">>)

\* The handle dec_open_stream wraps around fp.
Wrapped(fp) == [via |-> "dec", path |-> fp.path]

\* Mutant: a failed wrapping loses the handle.
disc_open_stream_strict(file, wrapOk) ==
    { IF o.crash \/ o.fp = NoHandle THEN o
      ELSE IF p.dec # NULL
      THEN IF wrapOk
           THEN Out(Wrapped(o.fp),
                    o.calls \o <<Ev("dec_open_stream", o.fp.path, "ok")>>, FALSE)
           ELSE Out(NoHandle,
                    o.calls \o <<Ev("dec_open_stream", o.fp.path, "NULL")>>, FALSE)
      ELSE o
      : o \in disc_open_file(StreamDir, file) }

\* wrapOk: dec_open_stream gives a wrapper.
disc_open_stream(file, wrapOk) ==
    { IF o.crash \/ o.fp = NoHandle THEN o
      ELSE IF p.dec # NULL
      THEN IF wrapOk
           THEN Out(Wrapped(o.fp),
                    o.calls \o <<Ev("dec_open_stream", o.fp.path, "ok")>>, FALSE)
           ELSE Out(o.fp,
                    o.calls \o <<Ev("dec_open_stream", o.fp.path, "NULL")>>, FALSE)
      ELSE o
      : o \in disc_open_file(StreamDir, file) }

DiscOpenStream ==
    /\ Running
    /\ \E file \in StreamFiles, wrapOk \in BOOLEAN :
          \E o \in disc_open_stream(file, wrapOk) :
             ret' = Ret("disc_open_stream", JoinDirFile(StreamDir, file), o)
    /\ UNCHANGED <<p, files, dirs, udf, threads>>

\* disc_get_data(disc, type): the calls made.
disc_get_data ==
    IF p.dec # NULL THEN <<Ev("dec_data", <<>>, "")>> ELSE <<>>

DiscGetData ==
    /\ Running
    /\ ret' = Ret("disc_get_data", <<>>, Out(NoHandle, disc_get_data, FALSE))
    /\ UNCHANGED <<p, files, dirs, udf, threads>>

(***************************************************************************)
(* events                                                                  *)
(***************************************************************************)
DISC_EVENT_START == "DISC_EVENT_START"
DISC_EVENT_TITLE == "DISC_EVENT_TITLE"
DISC_EVENT_APPLICATION == "DISC_EVENT_APPLICATION"

\* Event kinds a caller passes: the three of disc.h and one that is none of
\* them.
EventKinds == {DISC_EVENT_START, DISC_EVENT_TITLE, DISC_EVENT_APPLICATION, "other"}
EventParams == {0, 1}

\* Mutant: the cases fall through to the next.
disc_event_fallthrough(event, param) ==
    IF p.dec # NULL
    THEN (IF event = DISC_EVENT_START
          THEN <<EvN("dec_start", <<>>, "", param)>> ELSE <<>>)
         \o (IF event \in {DISC_EVENT_START, DISC_EVENT_TITLE}
             THEN <<EvN("dec_title", <<>>, "", param)>> ELSE <<>>)
         \o (IF event \in {DISC_EVENT_START, DISC_EVENT_TITLE, DISC_EVENT_APPLICATION}
             THEN <<EvN("dec_application", <<>>, "", param)>> ELSE <<>>)
    ELSE <<>>

\* disc_event(disc, event, param): the calls made into the decryption
\* subsystem.
disc_event(event, param) ==
    IF p.dec # NULL
    THEN IF event = DISC_EVENT_START THEN <<EvN("dec_start", <<>>, "", param)>>
         ELSE IF event = DISC_EVENT_TITLE THEN <<EvN("dec_title", <<>>, "", param)>>
         ELSE IF event = DISC_EVENT_APPLICATION
         THEN <<EvN("dec_application", <<>>, "", param)>>
         ELSE <<>>
    ELSE <<>>

DiscEvent ==
    /\ Running
    /\ \E event \in EventKinds, param \in EventParams :
          ret' = [Ret("disc_event", <<event>>, Out(NoHandle, disc_event(event, param), FALSE))
                  EXCEPT !.n = param]
    /\ UNCHANGED <<p, files, dirs, udf, threads>>

(***************************************************************************)
(* disc close                                                              *)
(***************************************************************************)
\* disc_close(&p) on an open controller: the calls made, in order.  X_FREE
\* calls free also on a null pointer.
disc_close ==
    <<Ev("dec_close", <<>>, "dec")>>
    \o (IF p.pf_fs_close # "NULL"
        THEN <<Ev("pf_fs_close", <<>>, p.fs_handle)>> ELSE <<>>)
    \o <<Ev("bd_mutex_destroy", <<>>, "ovl_mutex"),
         Ev("free", p.disc_root, "disc_root"),
         Ev("free", <<>>, "p")>>

\* What the released controller's fields held last: dec_close and X_FREE null
\* the pointers they release; the other fields are as they were.
DiscClose ==
    /\ Running
    /\ p' = [p EXCEPT !.dec = NULL, !.disc_root = NULL]
    /\ ret' = Ret("disc_close", <<>>, Out(NoHandle, disc_close, FALSE))
    /\ UNCHANGED <<files, dirs, udf, threads>>

(***************************************************************************)
(* Concurrent callers.  Each thread makes one call after another; a call   *)
(* runs statement by statement, interleaved with the other threads'.      *)
(* p->overlay_root is a pointer into a heap of strings: X_FREE releases   *)
(* the string and nulls the pointer, str_dup takes any free cell.  A      *)
(* string is read in two parts (str_printf copies it byte by byte), so    *)
(* that a string replaced half-way through the copy shows.                *)
(***************************************************************************)
\* Heap cells a string can be allocated in.
NCells == 2
\* The calls each thread issues where the callers stop calling.
MaxCalls == 2
\* The calls left to a caller that never stops calling.
Forever == -1

Threads == {"t1", "t2"}
Free == "free"
NullPtr == 0
Cells == 1..NCells

\* Overlay roots handed to disc_update by the concurrent callers.
RootA == OvlRoot
RootB == <<"/", "q", "/", "w", "/">>
ConcRoots == {NULL, RootA, RootB}
ConcRel == JoinDirFile(DirD, FileF)

\* The bytes of a string the first part of a copy reads.
SplitAt == 2
NoTry == <<"-">>

\* left: the calls the thread has yet to issue.
Idle == [pc |-> "idle", arg |-> NULL, ptr |-> NullPtr, buf |-> <<>>,
         tried |-> NoTry, seen |-> {}, left |-> Forever]

NoThreads ==
    /\ th = [t \in Threads |-> Idle]
    /\ ovl_mutex = Free
    /\ mem = [overlay_root |-> NullPtr, heap |-> [c \in Cells |-> [live |-> FALSE, val |-> <<>>]]]
    /\ acc = [held |-> TRUE, live |-> TRUE]
    /\ committed = NULL

At(t, pc) == th[t].pc = pc

\* A thread between two calls, and the step that issues its next call.
Returned(t) == [Idle EXCEPT !.left = th[t].left]
MayCall(t) == At(t, "idle") /\ th[t].left # 0
Issued(t) == IF th[t].left > 0 THEN th[t].left - 1 ELSE th[t].left
Goto(t, pc) == th' = [th EXCEPT ![t].pc = pc]

\* An access to p->overlay_root or to the string it points to: whether the
\* accessing thread held ovl_mutex, and whether the string was allocated.
Access(t, live) == [held |-> ovl_mutex = t, live |-> live]

\* bd_mutex_unlock by its holder.
Unlocked(t) == IF ovl_mutex = t THEN Free ELSE ovl_mutex

\* --- disc_update(p, overlay_root) ---
CallUpdate(t) ==
    /\ MayCall(t)
    /\ \E overlay_root \in ConcRoots :
          th' = [th EXCEPT ![t].pc = "u_lock", ![t].arg = overlay_root,
                           ![t].left = Issued(t)]
    /\ UNCHANGED <<ovl_mutex, mem, acc, committed, world>>

\* Mutant: disc_update does not take the lock.
UpdateLock_skip(t) ==
    /\ At(t, "u_lock")
    /\ Goto(t, "u_free")
    /\ UNCHANGED <<ovl_mutex, mem, acc, committed, world>>

\* bd_mutex_lock(&p->ovl_mutex)
UpdateLock(t) ==
    /\ At(t, "u_lock")
    /\ ovl_mutex = Free
    /\ ovl_mutex' = t
    /\ Goto(t, "u_free")
    /\ UNCHANGED <<mem, acc, committed, world>>

\* X_FREE(p->overlay_root)
UpdateFree(t) ==
    /\ At(t, "u_free")
    /\ mem' = [overlay_root |-> NullPtr,
               heap |-> [c \in Cells |->
                           IF c = mem.overlay_root
                           THEN [mem.heap[c] EXCEPT !.live = FALSE]
                           ELSE mem.heap[c]]]
    /\ acc' = Access(t, TRUE)
    /\ Goto(t, "u_dup")
    /\ UNCHANGED <<ovl_mutex, committed, world>>

\* if (overlay_root) p->overlay_root = str_dup(overlay_root)
UpdateDup(t) ==
    /\ At(t, "u_dup")
    /\ IF th[t].arg # NULL
       THEN \E c \in {x \in Cells : ~mem.heap[x].live} :
               /\ mem' = [overlay_root |-> c,
                          heap |-> [mem.heap EXCEPT ![c] = [live |-> TRUE,
                                                            val |-> th[t].arg]]]
               /\ acc' = Access(t, TRUE)
       ELSE UNCHANGED <<mem, acc, world>>
    /\ Goto(t, "u_unlock")
    /\ UNCHANGED <<ovl_mutex, committed, world>>

RootValue == IF mem.overlay_root = NullPtr THEN NULL ELSE mem.heap[mem.overlay_root].val

\* bd_mutex_unlock(&p->ovl_mutex); the call returns.  Every open in flight
\* has now run while the new root was the controller's.
UpdateUnlock(t) ==
    /\ At(t, "u_unlock")
    /\ ovl_mutex' = Unlocked(t)
    /\ committed' = RootValue
    /\ th' = [x \in Threads |->
                IF x = t THEN Returned(t)
                ELSE IF th[x].seen # {}
                THEN [th[x] EXCEPT !.seen = @ \cup {RootValue}]
                ELSE th[x]]
    /\ UNCHANGED <<mem, acc, world>>

\* --- disc_open_path (and disc_read_file, disc_open_stream through
\* disc_open_file) -> _overlay_open_path(p, rel_path) ---
CallOpenPath(t) ==
    /\ MayCall(t)
    /\ th' = [th EXCEPT ![t].pc = "o_lock", ![t].seen = {committed},
                        ![t].left = Issued(t)]
    /\ UNCHANGED <<ovl_mutex, mem, acc, committed, world>>

\* Mutant: _overlay_open_path does not take the lock.
OverlayPathLock_skip(t) ==
    /\ At(t, "o_lock")
    /\ Goto(t, "o_check")
    /\ UNCHANGED <<ovl_mutex, mem, acc, committed, world>>

\* bd_mutex_lock(&p->ovl_mutex)
OverlayPathLock(t) ==
    /\ At(t, "o_lock")
    /\ ovl_mutex = Free
    /\ ovl_mutex' = t
    /\ Goto(t, "o_check")
    /\ UNCHANGED <<mem, acc, committed, world>>

\* if (p->overlay_root)
OverlayPathCheck(t) ==
    /\ At(t, "o_check")
    /\ th' = [th EXCEPT ![t].ptr = mem.overlay_root,
                        ![t].pc = IF mem.overlay_root # NullPtr THEN "o_fmt1"
                                  ELSE "o_unlock"]
    /\ acc' = Access(t, TRUE)
    /\ UNCHANGED <<ovl_mutex, mem, committed, world>>

\* str_printf("%s%s", p->overlay_root, rel_path): the first bytes of the root
OverlayPathFormat1(t) ==
    /\ At(t, "o_fmt1")
    /\ LET cell == mem.heap[th[t].ptr]
       IN /\ th' = [th EXCEPT ![t].buf = SubSeq(cell.val, 1, Min(SplitAt, Len(cell.val))),
                              ![t].pc = "o_fmt2"]
          /\ acc' = Access(t, cell.live)
    /\ UNCHANGED <<ovl_mutex, mem, committed, world>>

\* ... the rest of the root, then rel_path
OverlayPathFormat2(t) ==
    /\ At(t, "o_fmt2")
    /\ LET cell == mem.heap[th[t].ptr]
       IN /\ th' = [th EXCEPT ![t].buf = @ \o SubSeq(cell.val, SplitAt + 1, Len(cell.val))
                                           \o ConcRel,
                              ![t].pc = "o_open"]
          /\ acc' = Access(t, cell.live)
    /\ UNCHANGED <<ovl_mutex, mem, committed, world>>

\* fp = file_open_default()(abs_path, "rb"); X_FREE(abs_path)
OverlayPathOpen(t) ==
    /\ At(t, "o_open")
    /\ th' = [th EXCEPT ![t].tried = th[t].buf, ![t].buf = <<>>, ![t].ptr = NullPtr,
                        ![t].pc = "o_unlock"]
    /\ UNCHANGED <<ovl_mutex, mem, acc, committed, world>>

\* Mutant: _overlay_open_path returns without releasing the lock.
OverlayPathUnlock_skip(t) ==
    /\ At(t, "o_unlock")
    /\ Goto(t, "o_ret")
    /\ UNCHANGED <<ovl_mutex, mem, acc, committed, world>>

\* bd_mutex_unlock(&p->ovl_mutex)
OverlayPathUnlock(t) ==
    /\ At(t, "o_unlock")
    /\ ovl_mutex' = Unlocked(t)
    /\ Goto(t, "o_ret")
    /\ UNCHANGED <<mem, acc, committed, world>>

\* What disc_open_path is about to return: the overlay's handle if the path
\* it tried holds a file, else the backing store's answer.
OpenPathResult(t) ==
    IF th[t].tried # NoTry /\ FileAt(th[t].tried) # NoFile THEN "ovl" ELSE "rom"

\* if (!fp) fp = p->pf_file_open_bdrom(...); return fp
OpenPathReturn(t) ==
    /\ At(t, "o_ret")
    /\ th' = [th EXCEPT ![t] = Returned(t)]
    /\ UNCHANGED <<ovl_mutex, mem, acc, committed, world>>

\* --- disc_open_dir -> _overlay_open_dir(p, dir) ---
CallOpenDir(t) ==
    /\ MayCall(t)
    /\ th' = [th EXCEPT ![t].pc = "d_lock", ![t].left = Issued(t)]
    /\ UNCHANGED <<ovl_mutex, mem, acc, committed, world>>

OverlayDirLock(t) ==
    /\ At(t, "d_lock")
    /\ ovl_mutex = Free
    /\ ovl_mutex' = t
    /\ Goto(t, "d_check")
    /\ UNCHANGED <<mem, acc, committed, world>>

\* if (p->overlay_root) { str_printf("%s%s", p->disc_root, dir); dir_open }
OverlayDirCheck(t) ==
    /\ At(t, "d_check")
    /\ Goto(t, "d_unlock")
    /\ acc' = Access(t, TRUE)
    /\ UNCHANGED <<ovl_mutex, mem, committed, world>>

\* bd_mutex_unlock(&p->ovl_mutex); disc_open_dir returns
OverlayDirUnlock(t) ==
    /\ At(t, "d_unlock")
    /\ ovl_mutex' = Unlocked(t)
    /\ th' = [th EXCEPT ![t] = Returned(t)]
    /\ UNCHANGED <<mem, acc, committed, world>>

\* --- disc_cache_bdrom_file: touches neither the lock nor the overlay root ---
CallCache(t) ==
    /\ MayCall(t)
    /\ th' = [th EXCEPT ![t].pc = "c_copy", ![t].left = Issued(t)]
    /\ UNCHANGED <<ovl_mutex, mem, acc, committed, world>>

CacheReturn(t) ==
    /\ At(t, "c_copy")
    /\ th' = [th EXCEPT ![t] = Returned(t)]
    /\ UNCHANGED <<ovl_mutex, mem, acc, committed, world>>

InitConc ==
    /\ p = disc_open(DevDir, TRUE, FALSE, FALSE)
    /\ files = [x \in {RootA \o ConcRel, RomRoot \o ConcRel} |-> Ramp(1)]
    /\ dirs = [x \in {} |-> NoDir]
    /\ udf = [files |-> EmptyFn, dirs |-> [x \in {} |-> NoDir]]
    /\ ret = NoRet
    /\ NoThreads

NextConc ==
    \E t \in Threads :
        \/ CallUpdate(t) \/ UpdateLock(t) \/ UpdateFree(t) \/ UpdateDup(t)
        \/ UpdateUnlock(t)
        \/ CallOpenPath(t) \/ OverlayPathLock(t) \/ OverlayPathCheck(t)
        \/ OverlayPathFormat1(t) \/ OverlayPathFormat2(t) \/ OverlayPathOpen(t)
        \/ OverlayPathUnlock(t) \/ OpenPathReturn(t)
        \/ CallOpenDir(t) \/ OverlayDirLock(t) \/ OverlayDirCheck(t)
        \/ OverlayDirUnlock(t)
        \/ CallCache(t) \/ CacheReturn(t)

SpecConc == InitConc /\ [][NextConc]_vars

\* The same callers, each issuing MaxCalls calls.  A thread inside a call
\* runs on whenever it can (a weakly fair scheduler; the I/O calls return);
\* nothing makes a caller issue a call.
InitConcFair ==
    /\ p = disc_open(DevDir, TRUE, FALSE, FALSE)
    /\ files = [x \in {RootA \o ConcRel, RomRoot \o ConcRel} |-> Ramp(1)]
    /\ dirs = [x \in {} |-> NoDir]
    /\ udf = [files |-> EmptyFn, dirs |-> [x \in {} |-> NoDir]]
    /\ ret = NoRet
    /\ th = [t \in Threads |-> [Idle EXCEPT !.left = MaxCalls]]
    /\ ovl_mutex = Free
    /\ mem = [overlay_root |-> NullPtr,
              heap |-> [c \in Cells |-> [live |-> FALSE, val |-> <<>>]]]
    /\ acc = [held |-> TRUE, live |-> TRUE]
    /\ committed = NULL

\* A step of thread t inside a call.
Step(t) ==
    \/ UpdateLock(t) \/ UpdateFree(t) \/ UpdateDup(t) \/ UpdateUnlock(t)
    \/ OverlayPathLock(t) \/ OverlayPathCheck(t) \/ OverlayPathFormat1(t)
    \/ OverlayPathFormat2(t) \/ OverlayPathOpen(t) \/ OverlayPathUnlock(t)
    \/ OpenPathReturn(t)
    \/ OverlayDirLock(t) \/ OverlayDirCheck(t) \/ OverlayDirUnlock(t)
    \/ CacheReturn(t)

SpecConcFair ==
    InitConcFair /\ [][NextConc]_vars /\ \A t \in Threads : WF_vars(Step(t))

(***************************************************************************)
(* Initial states: the controller as disc_open returns it, over each      *)
(* environment.                                                            *)
(***************************************************************************)
Devices == {NULL, DevDir, DevDir \o <<DIR_SEP_CHAR>>, DevImg}

IsDirDevice(d) == d \in {DevDir, DevDir \o <<DIR_SEP_CHAR>>}

\* image: a UDF image is reachable through the device path or the block-read
\* callback.
Init ==
    \E device_path \in Devices, image \in BOOLEAN, rc \in RomContents,
       ovf \in {NoFile, OvlContent} :
        /\ p = disc_open(device_path, IsDirDevice(device_path), image, FALSE)
        /\ files = [x \in ({OvlRoot \o JoinDirFile(DirD, FileF)}
                           \cup (IF IsDirDevice(device_path)
                                 THEN {RomRoot \o JoinDirFile(DirD, FileF)} ELSE {}))
                    |-> IF x = OvlRoot \o JoinDirFile(DirD, FileF) THEN ovf ELSE rc]
        /\ dirs = [x \in {} |-> NoDir]
        /\ udf = [files |-> IF image /\ ~IsDirDevice(device_path)
                            THEN [x \in {JoinDirFile(DirD, FileF)} |-> rc]
                            ELSE EmptyFn,
                  dirs |-> [x \in {} |-> NoDir]]
        /\ ret = NoRet
        /\ NoThreads

Next ==
    \/ DiscUpdate
    \/ DiscOpenPath
    \/ DiscReadFile
    \/ DiscCacheBdromFile

Spec == Init /\ [][Next]_vars

(***************************************************************************)
(* Directory listing: the controller over each pair of an overlay          *)
(* directory (under OvlRoot) and a backing-store directory.               *)
(***************************************************************************)
Names == {"a", "b", "c"}

RECURSIVE SeqsUpTo(_)
SeqsUpTo(n) ==
    IF n = 0 THEN {<<>>}
    ELSE SeqsUpTo(n - 1)
         \cup {Append(s, x) : s \in {t \in SeqsUpTo(n - 1) : Len(t) = n - 1}, x \in Names}

Listings == {NoDir} \cup SeqsUpTo(MaxDirLen)

EmptyDirs == [x \in {} |-> NoDir]

InitDir ==
    \E device_path \in Devices, image \in BOOLEAN, od \in Listings, rd \in Listings :
        /\ p = disc_open(device_path, IsDirDevice(device_path), image, FALSE)
        /\ files = EmptyFn
        /\ dirs = [x \in ({OvlRoot \o DirD}
                          \cup (IF IsDirDevice(device_path) THEN {RomRoot \o DirD} ELSE {}))
                   |-> IF x = OvlRoot \o DirD THEN od ELSE rd]
        /\ udf = [files |-> EmptyFn,
                  dirs |-> IF image /\ ~IsDirDevice(device_path)
                           THEN [x \in {DirD} |-> rd] ELSE EmptyDirs]
        /\ ret = NoRet
        /\ NoThreads

NextDir ==
    \/ DiscUpdate
    \/ DiscOpenDir

SpecDir == InitDir /\ [][NextDir]_vars

\* _combine_dirs on its own: the two directories opened, then merged.  The
\* caller holds one merged iterator at a time.
CombineDirs ==
    /\ ret.fp.via # "comb"
    /\ DirAt(OvlRoot \o DirD) # NoDir
    /\ \E rom \in {x \in pf_dir_open_bdrom(DirD) : x.fp # NoHandle}, plan \in AllocPlans :
          LET c == _combine_dirs(DirOpen("ovl", OvlRoot \o DirD), rom.fp, plan)
          IN ret' = [Ret("_combine_dirs", DirD, Out(c.fp, c.calls, FALSE))
                     EXCEPT !.comb = c.comb]
    /\ UNCHANGED <<p, files, dirs, udf, threads>>

\* _comb_dir_read(dp, &entry) on dp->internal = priv: the outcomes
\* [priv, r, d_name, crash].  With a null dp->internal the read of priv->pos
\* goes through a null pointer: the call faults, or reads whatever lies
\* there and reports the end.
_comb_dir_read(priv) ==
    IF priv.null
    THEN {[priv |-> priv, r |-> 1, d_name |-> <<>>, crash |-> TRUE],
          [priv |-> priv, r |-> 1, d_name |-> <<>>, crash |-> FALSE]}
    ELSE IF priv.pos < Len(priv.entry)
    THEN {[priv |-> [priv EXCEPT !.pos = @ + 1], r |-> 0,
           d_name |-> <<priv.entry[priv.pos + 1]>>, crash |-> FALSE]}
    ELSE {[priv |-> priv, r |-> 1, d_name |-> <<>>, crash |-> FALSE]}

\* The caller holds the merged iterator that _combine_dirs returned.
HoldsCombDir ==
    /\ Running
    /\ ret.op \in {"_combine_dirs", "_comb_dir_read"}
    /\ ret.fp.via = "comb"

\* dir_read(dp, &entry) on the merged iterator
CombDirRead ==
    /\ HoldsCombDir
    /\ \E o \in _comb_dir_read(ret.comb) :
          ret' = [ret EXCEPT !.op = "_comb_dir_read", !.comb = o.priv, !.n = o.r,
                             !.arg2 = o.d_name, !.crash = o.crash]
    /\ UNCHANGED <<p, files, dirs, udf, threads>>

\* dir_close(dp) on the merged iterator: _comb_dir_close
CombDirClose ==
    /\ HoldsCombDir
    /\ ret' = Ret("_comb_dir_close", ret.arg,
                  Out(NoHandle, <<Ev("free", <<>>, "internal"),
                                  Ev("free", <<>>, "dp")>>, FALSE))
    /\ UNCHANGED <<p, files, dirs, udf, threads>>

NextCombine ==
    \/ CombineDirs
    \/ CombDirRead
    \/ CombDirClose

SpecCombine == InitDir /\ [][NextCombine]_vars

(***************************************************************************)
(* The life of one controller: disc_open over every outcome of the         *)
(* directory probe, the UDF open and the decryption init; then any         *)
(* operation, in any order, until disc_close.                              *)
(***************************************************************************)
\* What disc_open can be given and what its collaborators can answer: only a
\* directory can be opened as one.
OpenInputs ==
    {i \in [device_path : Devices, dirOk : BOOLEAN, udfOk : BOOLEAN, decOk : BOOLEAN] :
        i.dirOk => IsDirDevice(i.device_path)}

LifeFiles == {JoinDirFile(DirD, FileF), StreamOnDisc}

InitLife ==
    \E i \in OpenInputs :
        /\ p = disc_open(i.device_path, i.dirOk, i.udfOk, i.decOk)
        /\ files = [x \in ({OvlRoot \o JoinDirFile(DirD, FileF)}
                           \cup (IF IsDirDevice(i.device_path)
                                 THEN {RomRoot \o f : f \in LifeFiles} ELSE {}))
                    |-> IF x = OvlRoot \o JoinDirFile(DirD, FileF)
                        THEN OvlContent ELSE Ramp(1)]
        /\ dirs = [x \in ({OvlRoot \o DirD}
                          \cup (IF IsDirDevice(i.device_path) THEN {RomRoot \o DirD} ELSE {}))
                   |-> IF x = OvlRoot \o DirD THEN <<"b", "a">> ELSE <<"a">>]
        /\ udf = [files |-> IF p.pf_file_open_bdrom = "udf_file_open"
                            THEN [x \in LifeFiles |-> Ramp(1)] ELSE EmptyFn,
                  dirs |-> IF p.pf_dir_open_bdrom = "udf_dir_open"
                           THEN [x \in {DirD} |-> <<"a">>] ELSE EmptyDirs]
        /\ ret = Ret("disc_open", i.device_path,
                     Out(NoHandle,
                         disc_open_calls(i.device_path, i.dirOk, i.udfOk, i.decOk),
                         FALSE))
        /\ NoThreads

NextLife ==
    \/ DiscUpdate
    \/ DiscOpenPath
    \/ DiscOpenFile
    \/ DiscOpenDir
    \/ DiscOpenBdromDir
    \/ DiscReadFile
    \/ DiscCacheBdromFile
    \/ DiscOpenStream
    \/ DiscGetData
    \/ DiscEvent
    \/ DiscClose

SpecLife == InitLife /\ [][NextLife]_vars

(***************************************************************************)
(* Properties of the file operations.                                      *)
(***************************************************************************)
CallsOf(f) == {i \in DOMAIN ret.calls : ret.calls[i].f = f}

OverlayHit(rel) ==
    p.overlay_root # NULL /\ FileAt(p.overlay_root \o rel) # NoFile

\* The handles the bound backing-store open can return for rel.
BackingResults(rel) == {x.fp : x \in {y \in pf_file_open_bdrom(rel) : ~y.crash}}

\* C1: disc_open_path resolves overlay first, backing store second: an overlay
\* hit is returned without calling the backing store's open; otherwise the
\* result is what the bound backing-store open returns for the same relative
\* path, and the result is absent only when both sources fail.
C1_OverlayFirst ==
    (ret.op = "disc_open_path" /\ ~ret.crash) =>
        /\ IF OverlayHit(ret.arg)
           THEN /\ ret.fp = [via |-> "ovl", path |-> p.overlay_root \o ret.arg]
                /\ CallsOf("pf_file_open_bdrom") = {}
           ELSE /\ Cardinality(CallsOf("pf_file_open_bdrom")) = 1
                /\ \A i \in CallsOf("pf_file_open_bdrom") :
                      ret.calls[i].a = ret.arg /\ ret.calls[i].r = ret.fp.via
                /\ ret.fp \in BackingResults(ret.arg)
        /\ (ret.fp = NoHandle =>
               ~OverlayHit(ret.arg) /\ NoHandle \in BackingResults(ret.arg))

\* An overlay hit on a path the backing store holds too.
C1_Witness ==
    /\ ret.op = "disc_open_path"
    /\ ret.fp.via = "ovl"
    /\ p.overlay_root = OvlRoot
    /\ \E h \in BackingResults(ret.arg) : h # NoHandle

\* The writes of the copy loop that wrote fewer bytes than were read.
ShortWrites ==
    {i \in CallsOf("write") : ret.calls[i].n # ret.calls[i - 1].n}

\* C7: when a chunk write of disc_cache_bdrom_file is short, the destination
\* handle is closed, then the source handle, then the destination file is
\* deleted, failure is returned, and no file is left at the destination.
C7_FailedWriteLeavesNoFile ==
    (ret.op = "disc_cache_bdrom_file" /\ ShortWrites # {}) =>
        LET k == Len(ret.calls)
        IN /\ ret.n = -1
           /\ \A i \in ShortWrites : i = k - 3
           /\ ret.calls[k - 2] = Ev("file_close", ret.arg2, "out")
           /\ ret.calls[k - 1] = Ev("file_close", <<>>, "in")
           /\ ret.calls[k] = Ev("file_unlink", ret.arg2, "")
           /\ FileAt(ret.arg2) = NoFile

\* A write that fails after an earlier chunk went through and before the
\* source is exhausted, having written part of its chunk.
C7_Witness ==
    /\ ret.op = "disc_cache_bdrom_file"
    /\ \E i \in ShortWrites : ret.calls[i].n > 0
    /\ Cardinality(CallsOf("write")) >= 2
    /\ \E h \in BackingResults(ret.arg) :
          h # NoHandle /\ Len(Content(h)) > 2 * BufSize - 1

\* C8 (as claimed): whenever disc_cache_bdrom_file reports success, the
\* destination holds exactly the bytes of the backing-store source.
C8_SuccessIsFullCopy ==
    (ret.op = "disc_cache_bdrom_file" /\ ~ret.crash /\ ret.n = 0) =>
        \E h \in BackingResults(ret.arg) :
            h # NoHandle /\ FileAt(ret.arg2) = Content(h)

\* C9: disc_cache_bdrom_file opens its source through the backing store's
\* bound open only: it takes no overlay lock and opens nothing of the overlay
\* for reading, its first call is the backing-store open of the relative
\* path, it fails when the backing store lacks the path whatever the overlay
\* holds, and it leaves overlay_root as it was.
C9_State ==
    (ret.op = "disc_cache_bdrom_file" /\ ~ret.crash) =>
        /\ CallsOf("bd_mutex_lock") = {} /\ CallsOf("bd_mutex_unlock") = {}
        /\ CallsOf("file_open_default:rb") = {}
        /\ ret.calls[1].f = "pf_file_open_bdrom" /\ ret.calls[1].a = ret.arg
        /\ Cardinality(CallsOf("pf_file_open_bdrom")) = 1
        /\ (NoHandle \in BackingResults(ret.arg) => ret.n = -1)

C9_CacheBypassesOverlay ==
    /\ []C9_State
    /\ [][ret'.op = "disc_cache_bdrom_file" => p'.overlay_root = p.overlay_root]_vars

\* The backing store lacks the path, the overlay holds it, the call fails.
C9_Witness ==
    /\ ret.op = "disc_cache_bdrom_file"
    /\ ret.n = -1
    /\ OverlayHit(ret.arg)
    /\ BackingResults(ret.arg) = {NoHandle}

\* The bytes disc_open_path's file holds, for each file it can resolve to.
ResolvedContents(rel) ==
    {Content(x.fp) : x \in {y \in disc_open_path(rel) : ~y.crash /\ y.fp # NoHandle}}

\* C10: disc_read_file returns a positive length with a buffer of exactly
\* that many bytes holding the whole file, or length 0 with no buffer; a
\* missing path, a non-positive or oversized size, a failed allocation and a
\* read of another count than the size all give (0, absent), the buffer
\* released after the short read.
C10_ReadFileResult ==
    (ret.op = "disc_read_file" /\ ~ret.crash) =>
        /\ \/ ret.n = 0 /\ ret.data = NoData
           \/ /\ ret.n > 0 /\ ret.data # NoData /\ Len(ret.data) = ret.n
              /\ ret.data \in ResolvedContents(ret.arg)
        /\ (CallsOf("file_size") = {} => ret.n = 0)
        /\ \A i \in CallsOf("file_size") :
              (ret.calls[i].n <= 0 \/ ret.calls[i].n > BD_MAX_SSIZE) => ret.n = 0
        /\ \A i \in CallsOf("malloc") : ret.calls[i].r = "NULL" => ret.n = 0
        /\ \A i \in CallsOf("file_read") :
              ret.calls[i].n # ret.calls[i - 1].n =>
                  ret.n = 0 /\ ret.calls[i + 1].f = "free"

\* A read that returned some, not all, of the bytes asked for.
C10_Witness ==
    /\ ret.op = "disc_read_file"
    /\ \E i \in CallsOf("file_read") :
          ret.calls[i].n > 0 /\ ret.calls[i].n < ret.calls[i - 1].n
    /\ ret.n = 0 /\ ret.data = NoData

(***************************************************************************)
(* Properties of the directory operations.                                 *)
(***************************************************************************)
NamesOf(listing) ==
    IF listing = NoDir THEN {} ELSE {listing[i] : i \in 1..Len(listing)}

NoDuplicates(listing) ==
    \A i, j \in 1..Len(listing) : i # j => listing[i] # listing[j]

\* The directory handles the bound backing-store open can return for dir.
BackingDirs(dir) == {x.fp : x \in {y \in pf_dir_open_bdrom(dir) : ~y.crash}}

\* The names the returned directory handle yields.
Listing ==
    IF ret.fp.via = "comb" THEN ret.comb.entry
    ELSE IF ret.fp = NoHandle THEN <<>>
    ELSE DirContent(ret.fp)

AllocFailed ==
    \E i \in DOMAIN ret.calls :
        ret.calls[i].f \in {"calloc", "realloc"} /\ ret.calls[i].r = "NULL"

\* C2 (as claimed): with an overlay root set, disc_open_dir lists the
\* overlay's directory (overlay_root joined with dir) together with the
\* backing store's: every name of either directory appears exactly once and
\* the listing has as many entries as the union of the two name sets.
C2_ListingIsUnion ==
    (/\ ret.op = "disc_open_dir" /\ ~ret.crash /\ ~AllocFailed
     /\ p.overlay_root # NULL
     /\ NoDuplicates(Listing)) =>
        \A h \in BackingDirs(ret.arg) :
            LET O == NamesOf(DirAt(p.overlay_root \o ret.arg))
                R == IF h = NoHandle THEN {} ELSE NamesOf(DirContent(h))
            IN /\ \A n \in O \cup R :
                    Cardinality({i \in 1..Len(Listing) : Listing[i] = n}) = 1
               /\ Len(Listing) = Cardinality(O \cup R)

\* The first occurrence of each name of s, in the order of s.
RECURSIVE FirstOccFrom(_, _)
FirstOccFrom(s, i) ==
    IF i > Len(s) THEN <<>>
    ELSE (IF \E j \in 1..(i - 1) : s[j] = s[i] THEN <<>> ELSE <<s[i]>>)
         \o FirstOccFrom(s, i + 1)

\* C3: when no allocation fails, _combine_dirs(ovl, rom) yields a listing
\* without two equal names: the distinct overlay names in overlay order, then
\* the backing-store names not yet present in backing-store order, also when
\* a source yields a name twice.
C3_MergeOrderAndDedup ==
    (ret.op = "_combine_dirs" /\ ~AllocFailed) =>
        \A h \in BackingDirs(ret.arg) \ {NoHandle} :
            LET o == DirAt(OvlRoot \o ret.arg)
                r == DirContent(h)
            IN /\ ret.fp.via = "comb" /\ ~ret.comb.null
               /\ NoDuplicates(ret.comb.entry)
               /\ ret.comb.entry =
                     FirstOccFrom(o, 1)
                     \o SelectSeq(FirstOccFrom(r, 1), LAMBDA x : x \notin NamesOf(o))
               /\ NamesOf(ret.comb.entry) = NamesOf(o) \cup NamesOf(r)

\* A merge where the overlay yields a name twice, the backing store repeats
\* an overlay name and adds one of its own.
C3_Witness ==
    /\ ret.op = "_combine_dirs" /\ ~AllocFailed
    /\ LET o == DirAt(OvlRoot \o ret.arg)
       IN /\ Len(o) > Cardinality(NamesOf(o))
          /\ \E h \in BackingDirs(ret.arg) \ {NoHandle} :
                /\ NamesOf(DirContent(h)) \cap NamesOf(o) # {}
                /\ NamesOf(DirContent(h)) \ NamesOf(o) # {}

\* The source handles disc_open_dir opened, read off its calls.
Opened(via) ==
    {[via |-> via, path |-> ret.calls[i].a] :
        i \in {j \in DOMAIN ret.calls :
                 /\ ret.calls[j].f \in {"dir_open", "udf_dir_open", "dir_open_default"}
                 /\ ret.calls[j].r = via}}

ReadsOf(via) == {i \in CallsOf("dir_read") : ret.calls[i].r = via}
ClosesOf(via) == {i \in CallsOf("dir_close") : ret.calls[i].r = via}

\* The source was read to its end, name by name, and closed once, after that.
Drained(h) ==
    /\ Cardinality(ReadsOf(h.via)) = Len(DirContent(h)) + 1
    /\ \E i \in ReadsOf(h.via) : ret.calls[i].n = 1
    /\ Cardinality(ClosesOf(h.via)) = 1
    /\ \A i \in ReadsOf(h.via), j \in ClosesOf(h.via) : i < j

FirstCall(f) == CHOOSE i \in CallsOf(f) : \A j \in CallsOf(f) : i <= j

Untouched == CallsOf("dir_read") = {} /\ CallsOf("dir_close") = {}

OneSourceCases ==
    /\ (Opened("ovl") = {} /\ Opened("rom") = {}) => ret.fp = NoHandle
    /\ (Opened("ovl") = {} /\ Opened("rom") # {}) =>
           ret.fp \in Opened("rom") /\ Untouched
    /\ (Opened("ovl") # {} /\ Opened("rom") = {}) =>
           ret.fp \in Opened("ovl") /\ Untouched
    /\ Cardinality(Opened("ovl")) <= 1 /\ Cardinality(Opened("rom")) <= 1

\* C4 (as claimed): neither source opens => absent; one opens => that handle,
\* unread and unclosed; both open => a new merged iterator, both sources
\* drained and closed exactly once, neither of them returned.
C4_Original ==
    (ret.op = "disc_open_dir" /\ ~ret.crash) =>
        /\ OneSourceCases
        /\ (Opened("ovl") # {} /\ Opened("rom") # {}) =>
              /\ ret.fp.via = "comb"
              /\ \A h \in Opened("ovl") \cup Opened("rom") : Drained(h)

\* C4 (amended): as claimed, except that when both sources open and the
\* allocation of the merged iterator's handle fails, the result is absent and
\* the sources are closed, once each, without having been read.
C4_OpenDirCases ==
    (ret.op = "disc_open_dir" /\ ~ret.crash) =>
        /\ OneSourceCases
        /\ (Opened("ovl") # {} /\ Opened("rom") # {}) =>
              /\ ret.fp \notin Opened("ovl") \cup Opened("rom")
              /\ Cardinality(ClosesOf("ovl")) = 1 /\ Cardinality(ClosesOf("rom")) = 1
              /\ IF ret.calls[FirstCall("calloc")].r = "ok"
                 THEN /\ ret.fp.via = "comb"
                      /\ \A h \in Opened("ovl") \cup Opened("rom") : Drained(h)
                 ELSE ret.fp = NoHandle /\ CallsOf("dir_read") = {}

\* Both sources opened, each with entries, and the merged iterator returned.
C4_Witness ==
    /\ ret.op = "disc_open_dir"
    /\ ret.fp.via = "comb"
    /\ \A h \in Opened("ovl") \cup Opened("rom") : Len(DirContent(h)) > 0
    /\ Opened("ovl") # {} /\ Opened("rom") # {}

(***************************************************************************)
(* Properties of concurrent callers.                                       *)
(***************************************************************************)
\* C5: in every interleaving, p->overlay_root is read, freed or replaced
\* only by the thread holding ovl_mutex, and no thread reads or keeps a
\* pointer to an overlay-root string that has been freed.
C5_OverlayRootUnderLock ==
    /\ acc.held
    /\ acc.live
    /\ \A t \in Threads :
          th[t].ptr # NullPtr => ovl_mutex = t /\ mem.heap[th[t].ptr].live

\* A thread is half-way through reading the root string while another waits
\* to replace it, after an earlier root has been freed.
C5_Witness ==
    \E t, u \in Threads :
        /\ t # u
        /\ At(t, "o_fmt2") /\ At(u, "u_lock")
        /\ \E c \in Cells : ~mem.heap[c].live /\ mem.heap[c].val # <<>>

\* C6: a disc_open_path call that completes, whatever disc_update calls it
\* raced with, tried either no overlay path, with "absent" having been the
\* overlay root during the call, or the path built from one whole root that
\* was the overlay root during the call; its result is that path's.
C6_SingleRootSnapshot ==
    \A t \in Threads :
        At(t, "o_ret") =>
            \E r \in th[t].seen :
                IF r = NULL
                THEN th[t].tried = NoTry /\ OpenPathResult(t) = "rom"
                ELSE /\ th[t].tried = r \o ConcRel
                     /\ (OpenPathResult(t) = "ovl") = (FileAt(r \o ConcRel) # NoFile)

\* A completed open that tried a path while the root was replaced during
\* the call.
C6_Witness ==
    \E t \in Threads :
        /\ At(t, "o_ret")
        /\ th[t].tried # NoTry
        /\ Cardinality(th[t].seen) >= 2

(***************************************************************************)
(* Properties of the controller's life.                                    *)
(***************************************************************************)
\* C11 (as claimed): disc_close releases the decryption context first, then
\* the backing store's resource (only when a close function was recorded),
\* then the overlay lock, then the path strings; afterwards no owned resource
\* is left allocated: not the decryption context, not disc_root, and not an
\* overlay_root that disc_update had set.
C11_CloseReleasesAll ==
    ret.op = "disc_close" =>
        /\ ret.calls[1].f = "dec_close"
        /\ (p.pf_fs_close # "NULL") = (CallsOf("pf_fs_close") # {})
        /\ \A i \in CallsOf("pf_fs_close") : i = 2
        /\ \A i \in CallsOf("bd_mutex_destroy"), j \in CallsOf("pf_fs_close") : j < i
        /\ Cardinality(CallsOf("bd_mutex_destroy")) = 1
        /\ \A i \in CallsOf("bd_mutex_destroy"), j \in CallsOf("free") : i < j
        /\ \E j \in CallsOf("free") : ret.calls[j].r = "disc_root"
        /\ p.dec = NULL /\ p.disc_root = NULL /\ p.overlay_root = NULL

\* C12 (as claimed): with no device path, disc_open attempts no UDF image
\* open and leaves the plain-directory default: the plain bindings, fs_handle
\* the controller, no close function, no volume id.
C12_NoDeviceStaysPlain ==
    (ret.op = "disc_open" /\ ret.arg = NULL) =>
        /\ CallsOf("udf_image_open") = {}
        /\ p.pf_file_open_bdrom = "_bdrom_open_path"
        /\ p.pf_dir_open_bdrom = "_bdrom_open_dir"
        /\ p.fs_handle = "p"
        /\ p.pf_fs_close = "NULL"
        /\ p.udf_volid = "NULL"

UdfSelected ==
    p.pf_file_open_bdrom = "udf_file_open" /\ p.pf_dir_open_bdrom = "udf_dir_open"

PlainSelected ==
    p.pf_file_open_bdrom = "_bdrom_open_path" /\ p.pf_dir_open_bdrom = "_bdrom_open_dir"

\* C13: every controller disc_open returns has both open bindings set, to the
\* plain pair or to the UDF pair; the close function is set exactly when the
\* UDF pair was selected, and then fs_handle is the UDF context, the volume id
\* is recorded and disc_root is absent; the UDF pair is selected exactly when
\* the UDF open was made and succeeded, so a failed probe followed by a failed
\* UDF open still gives a controller with the plain bindings.
C13_OpenInvariants ==
    ret.op # "disc_close" =>
        /\ UdfSelected \/ PlainSelected
        /\ (p.pf_fs_close # "NULL") = UdfSelected
        /\ UdfSelected =>
              p.fs_handle = "udf" /\ p.udf_volid = "volid" /\ p.disc_root = NULL
        /\ PlainSelected => p.fs_handle = "p" /\ p.udf_volid = "NULL"
        /\ ret.op = "disc_open" =>
              /\ UdfSelected = (\E i \in CallsOf("udf_image_open") : ret.calls[i].r = "ok")
              /\ (\A i \in CallsOf("dir_open") : ret.calls[i].r = "ok") =>
                    (ret.arg # NULL => CallsOf("udf_image_open") = {})

\* The directory probe of an image path and the UDF open both failed.
C13_Witness ==
    /\ ret.op = "disc_open" /\ ret.arg = DevImg
    /\ \E i \in CallsOf("dir_open") : ret.calls[i].r = "NULL"
    /\ \E i \in CallsOf("udf_image_open") : ret.calls[i].r = "NULL"
    /\ PlainSelected /\ p.disc_root # NULL

\* The plain handles disc_open_path can return for rel.
PathResults(rel) == {x.fp : x \in {y \in disc_open_path(rel) : ~y.crash}}

\* C14: disc_open_stream returns absent exactly when disc_open_path of the
\* file under BDMV/STREAM fails; otherwise the decrypting wrapper of the
\* opened handle when a decryption context exists and wrapping succeeds, and
\* the opened handle itself, unclosed, when there is no context or wrapping
\* fails.  Wrapping is tried exactly when the open succeeded and a context
\* exists.
C14_StreamResult ==
    (ret.op = "disc_open_stream" /\ ~ret.crash) =>
        /\ (ret.fp = NoHandle) = (PathResults(ret.arg) = {NoHandle})
        /\ CallsOf("file_close") = {}
        /\ (CallsOf("dec_open_stream") # {}) =
              (p.dec # NULL /\ PathResults(ret.arg) # {NoHandle})
        /\ Cardinality(CallsOf("dec_open_stream")) <= 1
        /\ ret.fp # NoHandle =>
              IF \E i \in CallsOf("dec_open_stream") : ret.calls[i].r = "ok"
              THEN \E h \in PathResults(ret.arg) : ret.fp = Wrapped(h)
              ELSE ret.fp \in PathResults(ret.arg)

\* The open succeeded, wrapping failed, the plain handle came back.
C14_Witness ==
    /\ ret.op = "disc_open_stream"
    /\ \E i \in CallsOf("dec_open_stream") : ret.calls[i].r = "NULL"
    /\ ret.fp # NoHandle /\ ret.fp.via # "dec"

C15_State ==
    ret.op = "disc_event" =>
        LET event == ret.arg[1]
        IN IF p.dec # NULL
              /\ event \in {DISC_EVENT_START, DISC_EVENT_TITLE, DISC_EVENT_APPLICATION}
           THEN /\ Len(ret.calls) = 1
                /\ ret.calls[1].n = ret.n
                /\ ret.calls[1].f =
                      (IF event = DISC_EVENT_START THEN "dec_start"
                       ELSE IF event = DISC_EVENT_TITLE THEN "dec_title"
                       ELSE "dec_application")
           ELSE ret.calls = <<>>

\* C15: disc_event makes exactly one call into the decryption subsystem, the
\* one matching the kind, with the given param, when a decryption context
\* exists and the kind is start, title or application; otherwise it makes no
\* call; it changes nothing of the controller or its environment.
C15_EventForwarding ==
    /\ []C15_State
    /\ [][ret'.op = "disc_event" => UNCHANGED <<p, files, dirs, udf>>]_vars

\* A title event forwarded to an existing decryption context.
C15_Witness ==
    /\ ret.op = "disc_event" /\ ret.arg = <<DISC_EVENT_TITLE>> /\ ret.n = 1
    /\ p.dec # NULL
    /\ Len(ret.calls) = 1

\* C16: from disc_open's return until disc_close, a step of disc_update leaves
\* every field of the controller but overlay_root as it was, and a step of any
\* other operation leaves every field as it was.
C16_OnlyUpdateWritesRoot ==
    [][ret'.op # "disc_close" =>
          IF ret'.op = "disc_update"
          THEN [p' EXCEPT !.overlay_root = p.overlay_root] = p
          ELSE p' = p]_vars

\* An operation other than disc_update has run on a controller whose overlay
\* root disc_update had set.
C16_Witness ==
    /\ ret.op \in {"disc_open_stream", "disc_read_file", "disc_open_dir", "disc_event"}
    /\ p.overlay_root = OvlRoot
    /\ p.disc_root = RomRoot

\* The calls that open a file or directory handle, and those that did.
OpenCalls ==
    {"file_open", "udf_file_open", "file_open_default:rb", "file_open_default:wb",
     "dir_open", "udf_dir_open", "dir_open_default"}

HandleOpens ==
    {i \in DOMAIN ret.calls : ret.calls[i].f \in OpenCalls /\ ret.calls[i].r # "none"}

HandleCloses == CallsOf("file_close") \cup CallsOf("dir_close")

\* The closes of the handle the i-th call opened.  disc_cache_bdrom_file
\* closes its source as "in".
ClosesOfOpen(i) ==
    {j \in HandleCloses :
        IF ret.op = "disc_cache_bdrom_file" /\ ret.calls[i].r = "rom"
        THEN ret.calls[j].r = "in"
        ELSE ret.calls[j].a = ret.calls[i].a /\ ret.calls[j].r = ret.calls[i].r}

\* Whether the handle the i-th call opened is the operation's result, or is
\* inside the wrapper that is.
HandedOver(i) ==
    LET h == [via |-> ret.calls[i].r, path |-> ret.calls[i].a]
    IN ret.fp # NoHandle /\ ret.fp \in {h, Wrapped(h)}

\* C17: when disc_read_file, disc_cache_bdrom_file, disc_open_dir or
\* disc_open_stream returns, every handle it opened has either been closed
\* exactly once, after its open, or is handed to the caller (or to the
\* decryption wrapper), never both and never neither; nothing is closed that
\* was not opened; the merged iterator exists exactly when it is returned.
C17_HandlesClosedOrHanded ==
    (/\ ret.op \in {"disc_read_file", "disc_cache_bdrom_file", "disc_open_dir",
                    "disc_open_stream"}
     /\ ~ret.crash) =>
        /\ \A i \in HandleOpens :
              /\ Cardinality(ClosesOfOpen(i)) + (IF HandedOver(i) THEN 1 ELSE 0) = 1
              /\ \A j \in ClosesOfOpen(i) : i < j
        /\ \A j \in HandleCloses : \E i \in HandleOpens : j \in ClosesOfOpen(i)
        /\ (ret.fp.via = "comb") =
              (CallsOf("calloc") # {} /\ ret.calls[FirstCall("calloc")].r = "ok")
        /\ ret.fp # NoHandle /\ ret.fp.via # "comb" =>
              \E i \in HandleOpens : HandedOver(i)

\* The allocation of the merged iterator failed after both directories were
\* opened.
C17_Witness ==
    /\ ret.op = "disc_open_dir"
    /\ CallsOf("calloc") # {} /\ ret.calls[FirstCall("calloc")].r = "NULL"
    /\ Cardinality(HandleOpens) = 2
    /\ ret.fp = NoHandle

\* C18 (as claimed): disc_read_file attempts the allocation for every size s
\* with 0 < s <= BD_MAX_SSIZE, the maximum included, and for s <= 0 or
\* s > BD_MAX_SSIZE returns (0, absent) without attempting it.
C18_SizeRange ==
    (ret.op = "disc_read_file" /\ ~ret.crash) =>
        \A i \in CallsOf("file_size") :
            IF 0 < ret.calls[i].n /\ ret.calls[i].n <= BD_MAX_SSIZE
            THEN CallsOf("malloc") # {}
            ELSE CallsOf("malloc") = {} /\ ret.n = 0 /\ ret.data = NoData

\* The lock is not held by a thread that is outside _overlay_open_path,
\* _overlay_open_dir and disc_update, nor by one about to take it.
C19_State ==
    \A t \in Threads :
        th[t].pc \in {"idle", "o_ret", "c_copy", "u_lock", "o_lock", "d_lock"}
            => ovl_mutex # t

\* C19: the thread that took ovl_mutex releases it before _overlay_open_path,
\* _overlay_open_dir or disc_update returns, and none takes it while holding
\* it; so, with a weakly fair scheduler, every call issued completes.
C19_LockReleasedCallsComplete ==
    /\ []C19_State
    /\ \A t \in Threads : ~At(t, "idle") ~> At(t, "idle")

\* A thread waits for the lock another thread holds inside disc_update.
C19_Witness ==
    \E t, u \in Threads :
        /\ At(t, "o_lock") /\ At(u, "u_dup")
        /\ ovl_mutex = u
        /\ th[t].left = 0

\* C20 (as claimed): every merged iterator _combine_dirs returns has a
\* non-null entry sequence, also when an allocation failed during the merge;
\* its reads do not fault, its cursor stays within 0..count, a read that
\* returns an entry returns the one before the cursor, and a read that
\* reports the end finds the cursor at count.
C20_IteratorReadable ==
    (ret.op \in {"_combine_dirs", "_comb_dir_read"} /\ ret.fp.via = "comb") =>
        /\ ~ret.comb.null
        /\ ~ret.crash
        /\ 0 <= ret.comb.pos /\ ret.comb.pos <= Len(ret.comb.entry)
        /\ ret.op = "_comb_dir_read" =>
              IF ret.n = 0
              THEN ret.comb.pos >= 1 /\ ret.arg2 = <<ret.comb.entry[ret.comb.pos]>>
              ELSE ret.comb.pos = Len(ret.comb.entry)

=============================================================================
